---- MODULE Spec2Model ----
(***************************************************************************)
(* The four scripts of hgt_analysis as state machines:                     *)
(*   compute_accuracy.py  - precision / recall / F-score per tool          *)
(*   parse_output.py      - count of HGTs from a tool's log                *)
(*   reformat_input.py    - tree reformatting for the HGT tools            *)
(*   create_alf_params.py - ALF parameter file                             *)
(* Each script has its own specification; one run of a script is one       *)
(* behaviour.  The variables of the scripts that do not run stay idle.     *)
(***************************************************************************)
EXTENDS Integers, Sequences, FiniteSets, TLC

VARIABLES
    pc,                  \* position of the running script
    exc,                 \* exception that ended the run ("" while none)
    stdout,              \* sequence of the writes to sys.stdout
    expected_transfers,  \* compute_accuracy: list of 4-tuples
    observed_transfers,  \* compute_accuracy: dict tool -> list of gene ids
    tool_order,          \* iteration order of the dict observed_transfers
    idx,                 \* loop position (next element to iterate)
    method,              \* parse_output, reformat_input: --method
    input_f,             \* parse_output: the lines of the results file
    out_str,             \* parse_output: the parser's flag out_str
    gene_tree_fp,        \* reformat_input: the tree in the gene tree file
    species_tree_fp,     \* reformat_input: the tree in the species tree file
    gene_msa_fa_fp,      \* reformat_input: the sequence ids of the FASTA file
    gene_tree,           \* reformat_input: TreeNode of the gene tree
    species_tree,        \* reformat_input: TreeNode of the species tree
    mapping_dict,        \* reformat_jane4: result of species_gene_mapping
    mapping_str,         \* reformat_jane4: the distribution mapping
    fs,                  \* the files written: path -> {} or {content}
    exc_arg,             \* create_alf_params: the argument of the exception
    args,                \* create_alf_params: the arguments of create_param_file
    proc,                \* create_alf_params: the fasta2darwin subprocess
    p,                   \* create_alf_params: the parameter text being filled
    observed_hgts_f,     \* parse_observed_transfers: the lines of the summary file
    tools_id             \* parse_observed_transfers: the list tools_id

accVars == <<expected_transfers, observed_transfers, tool_order>>
poVars == <<input_f, out_str>>
rfInputs == <<gene_tree_fp, species_tree_fp, gene_msa_fa_fp>>
rfVars == <<gene_tree, species_tree, mapping_dict, mapping_str>>
apVars == <<exc_arg, args, proc, p>>
obsVars == <<observed_hgts_f, tools_id>>
vars ==
    <<pc, exc, stdout, idx, method, fs, accVars, poVars, rfInputs, rfVars, apVars, obsVars>>

\* the variables of the scripts that do not run
IdleAcc == expected_transfers = <<>> /\ observed_transfers = <<>> /\ tool_order = <<>>
IdlePo == input_f = <<>> /\ out_str = FALSE
IdleRf ==
    /\ gene_tree_fp = <<>> /\ species_tree_fp = <<>> /\ gene_msa_fa_fp = <<>>
    /\ gene_tree = <<>> /\ species_tree = <<>>
    /\ mapping_dict = <<>> /\ mapping_str = <<>>
IdleAp ==
    /\ exc_arg = "" /\ args = <<>> /\ p = <<>>
    /\ proc = [ran |-> FALSE, stderr |-> ""]
IdleObs == observed_hgts_f = <<>> /\ tools_id = <<>>
NoFiles ==
    [path \in {"output_tree_fp", "output_msa_phy_fp", "abs_path", "alf_params_fp"} |-> {}]

(***************************************************************************)
(* Helpers                                                                 *)
(***************************************************************************)
Range(s) == {s[i] : i \in DOMAIN s}

SeqsUpTo(S, n) == UNION {[1..k -> S] : k \in 0..n}

Permutations1(S) ==
    {s \in [1..Cardinality(S) -> S] : \A i, j \in DOMAIN s : s[i] = s[j] => i = j}

(***************************************************************************)
(* compute_accuracy.py                                                     *)
(***************************************************************************)
MaxLen == 2

Genes == {"g1", "g2", "g3"}
Tools == {"toolX", "toolY"}
\* a summary of three tools, each with at most one gene
MoreTools == Tools \cup {"toolZ"}

\* gene id the donated gene gets in the recipient ("now gene ...")
Received(g) == CASE g = "g1" -> "g2" [] g = "g2" -> "g3" [] OTHER -> "g1"

\* (organism donor, gene donated, organism recipient, gene received)
TransferTuples == {<<"o1", g, "o2", Received(g)>> : g \in Genes}

\* variant: the gene received (tup[3]) taken for the gene donated
ExpSGeneReceived(transfers) == {transfers[i][4] : i \in DOMAIN transfers}
\* exp_s: the set built by "for tup in expected_transfers: exp_s.add(tup[1])"
\* (Python index 1 is the second component)
ExpS(transfers) == {transfers[i][2] : i \in DOMAIN transfers}

\* obs_s = set(observed_transfers[tool])
ObsS(tool) == Range(observed_transfers[tool])

exp_s == ExpS(expected_transfers)

TP(obs, exp) == Cardinality(obs \cap exp)
FP(obs, exp) == Cardinality(obs \ exp)
FN(obs, exp) == Cardinality(exp \ obs)

\* Python floats are modelled as exact fractions <<numerator, denominator>>;
\* the results are only observed through "%.2f", and within the bounds of
\* this model no quotient lies within float error of a rounding tie.
Frac(n, d) == <<n, d>>
FMul(a, b) == <<a[1] * b[1], a[2] * b[2]>>
FAdd(a, b) == <<a[1] * b[2] + b[1] * a[2], a[2] * b[2]>>
FDiv(a, b) == <<a[1] * b[2], a[2] * b[1]>>
IsZero(a) == a[1] = 0

\* "%.2f" % x, as the number of hundredths (round half to even)
Fmt2(a) ==
    LET q == (100 * a[1]) \div a[2]
        r == (100 * a[1]) % a[2]
    IN  IF 2 * r > a[2] THEN q + 1
        ELSE IF 2 * r = a[2] THEN q + (q % 2)
        ELSE q

Precision(tool) == Frac(TP(ObsS(tool), exp_s), TP(ObsS(tool), exp_s) + FP(ObsS(tool), exp_s))
Recall(tool) == Frac(TP(ObsS(tool), exp_s), TP(ObsS(tool), exp_s) + FN(ObsS(tool), exp_s))
FScore(tool) ==
    FDiv(FMul(Frac(2, 1), FMul(Precision(tool), Recall(tool))),
         FAdd(Precision(tool), Recall(tool)))

\* the three divisions of lines 111-113, in order; a float division by 0.0
\* raises ZeroDivisionError
DivisionFaults(tool) ==
    \/ TP(ObsS(tool), exp_s) + FP(ObsS(tool), exp_s) = 0
    \/ TP(ObsS(tool), exp_s) + FN(ObsS(tool), exp_s) = 0
    \/ IsZero(FAdd(Precision(tool), Recall(tool)))

\* the first of the divisions of lines 111-113 whose divisor is 0.0:
\* p (line 111), r (line 112), f (line 113); "" when none is
FaultingDivision(tool) ==
    IF TP(ObsS(tool), exp_s) + FP(ObsS(tool), exp_s) = 0 THEN "p"
    ELSE IF TP(ObsS(tool), exp_s) + FN(ObsS(tool), exp_s) = 0 THEN "r"
    ELSE IF IsZero(FAdd(Precision(tool), Recall(tool))) THEN "f"
    ELSE ""

\* the line written by sys.stdout.write("%s\t%.2f\t%.2f\t%.2f\n" % ...)
OutLine(tool) ==
    <<tool, Fmt2(Precision(tool)), Fmt2(Recall(tool)), Fmt2(FScore(tool))>>

InitAcc ==
    /\ expected_transfers \in SeqsUpTo(TransferTuples, MaxLen)
    /\ observed_transfers \in [Tools -> SeqsUpTo(Genes, MaxLen)]
                               \cup [MoreTools -> {<<>>, <<"g1">>, <<"g2">>}]
    /\ tool_order \in Permutations1(DOMAIN observed_transfers)
    /\ idx = 1
    /\ pc = "compute_accuracy"
    /\ exc = ""
    /\ stdout = <<>>
    /\ method = ""
    /\ fs = NoFiles
    /\ IdlePo
    /\ IdleRf
    /\ IdleAp
    /\ IdleObs

AccLooping == pc = "compute_accuracy" /\ idx <= Len(tool_order)

\* variants: no "continue"; "continue" also when no detected gene is expected
SkipsNoTool(tool) == FALSE
SkipsToolWithoutHit(tool) == ObsS(tool) = {} \/ TP(ObsS(tool), exp_s) = 0
\* variant: "continue" only when nothing is expected either
SkipsToolWhenNoneExpected(tool) == ObsS(tool) = {} /\ exp_s = {}
\* lines 105-107: empty detection set, "continue"
SkipsTool(tool) == ObsS(tool) = {}

AccSkipTool ==
    /\ AccLooping
    /\ SkipsTool(tool_order[idx])
    /\ stdout' = stdout
    /\ idx' = idx + 1
    /\ UNCHANGED <<pc, exc, method, fs, accVars, poVars, rfInputs, rfVars, apVars,
                   obsVars>>

\* variant: what was written is lost with the exception
WrittenLostAtExit(out) == <<>>
\* sys.stdout is flushed when the interpreter exits on the uncaught
\* exception: what was written stays written
WrittenAtExit(out) == out

\* lines 108-113 raise: the exception leaves compute_accuracy and _main
AccFault ==
    /\ AccLooping
    /\ ~SkipsTool(tool_order[idx])
    /\ DivisionFaults(tool_order[idx])
    /\ pc' = "exit"
    /\ exc' = "ZeroDivisionError"
    /\ stdout' = WrittenAtExit(stdout)
    /\ UNCHANGED <<idx, method, fs, accVars, poVars, rfInputs, rfVars, apVars,
                   obsVars>>

\* lines 108-114: the tool's line is written
AccWriteLine ==
    /\ AccLooping
    /\ ~SkipsTool(tool_order[idx])
    /\ ~DivisionFaults(tool_order[idx])
    /\ stdout' = Append(stdout, OutLine(tool_order[idx]))
    /\ idx' = idx + 1
    /\ UNCHANGED <<pc, exc, method, fs, accVars, poVars, rfInputs, rfVars, apVars,
                   obsVars>>

\* the loop is exhausted: compute_accuracy and _main return
AccReturn ==
    /\ pc = "compute_accuracy"
    /\ idx > Len(tool_order)
    /\ pc' = "exit"
    /\ UNCHANGED <<exc, stdout, idx, method, fs, accVars, poVars, rfInputs, rfVars, apVars,
                   obsVars>>

NextAcc == AccSkipTool \/ AccFault \/ AccWriteLine \/ AccReturn

SpecAcc == InitAcc /\ [][NextAcc]_vars

(***************************************************************************)
(* Claims about compute_accuracy, stated over sets of gene identifiers     *)
(***************************************************************************)
Detected(t) == {observed_transfers[t][i] : i \in DOMAIN observed_transfers[t]}
Expected == {expected_transfers[i][2] : i \in DOMAIN expected_transfers}
NTp(t) == Cardinality(Detected(t) \cap Expected)
NFp(t) == Cardinality(Detected(t) \ Expected)
NFn(t) == Cardinality(Expected \ Detected(t))
LinesOf(t) == {i \in DOMAIN stdout : stdout[i][1] = t}
PosOf(t) == CHOOSE i \in DOMAIN tool_order : tool_order[i] = t

Abs(x) == IF x < 0 THEN -x ELSE x

\* h hundredths is n/d rounded to two decimals
Rounds(h, n, d) == d > 0 /\ 2 * Abs(100 * n - h * d) <= d

\* a line carries precision tp/(tp+fp), recall tp/(tp+fn) and
\* F1 = 2pr/(p+r), which for tp > 0 is 2tp/(2tp+fp+fn)
RightLine(l, t) ==
    /\ Rounds(l[2], NTp(t), NTp(t) + NFp(t))
    /\ Rounds(l[3], NTp(t), NTp(t) + NFn(t))
    /\ NTp(t) > 0
    /\ Rounds(l[4], 2 * NTp(t), 2 * NTp(t) + NFp(t) + NFn(t))

\* tp+fp = 0, or tp+fn = 0, or p+r = 0
ZeroDenominator(t) ==
    \/ NTp(t) + NFp(t) = 0
    \/ NTp(t) + NFn(t) = 0
    \/ NTp(t) * (NTp(t) + NFn(t)) + NTp(t) * (NTp(t) + NFp(t)) = 0

Scenario1 ==
    /\ Expected = {"g1"}
    /\ observed_transfers["toolX"] = <<"g1", "g2">>

\* C1 as stated: once the run has ended, every tool with a non-empty
\* detection set has its line with precision, recall and F1.
C1_EveryNonEmptyToolReported ==
    pc = "exit" =>
        \A t \in DOMAIN observed_transfers : Detected(t) # {} =>
            \E i \in LinesOf(t) : RightLine(stdout[i], t)

\* C1 amended: every line written is the line of a tool with a non-empty
\* detection set and carries precision tp/(tp+fp), recall tp/(tp+fn) and
\* F1 = 2pr/(p+r) rounded to two decimals; every tool with a non-empty
\* detection set that the loop has passed has exactly one such line (a tool
\* with tp = 0 is never passed); in scenario 1 the line of toolX is
\* 0.50, 1.00, 0.67.
C1_LinesCarryMetrics ==
    /\ \A i \in DOMAIN stdout :
          /\ stdout[i][1] \in DOMAIN observed_transfers
          /\ Detected(stdout[i][1]) # {}
          /\ RightLine(stdout[i], stdout[i][1])
    /\ \A t \in DOMAIN observed_transfers :
          /\ Cardinality(LinesOf(t)) <= 1
          /\ (Detected(t) # {} /\ PosOf(t) < idx) => LinesOf(t) # {}
          /\ (Detected(t) # {} /\ pc = "exit" /\ exc = "") => LinesOf(t) # {}
    /\ Scenario1 =>
          \A i \in LinesOf("toolX") : stdout[i] = <<"toolX", 50, 100, 67>>

C1_Witness ==
    /\ Scenario1
    /\ pc = "exit"
    /\ exc = ""
    /\ \E i \in DOMAIN stdout : stdout[i] = <<"toolX", 50, 100, 67>>

\* C2: a tool with a non-empty detection set and a zero denominator never
\* gets a line, the loop never gets past it, and a run that has ended has
\* ended in ZeroDivisionError.
C2_ZeroDenominatorFaults ==
    \A t \in DOMAIN observed_transfers : (Detected(t) # {} /\ ZeroDenominator(t)) =>
        /\ LinesOf(t) = {}
        /\ idx <= PosOf(t)
        /\ pc = "exit" => exc = "ZeroDivisionError"

C2_Witness ==
    /\ pc = "exit"
    /\ exc = "ZeroDivisionError"
    /\ stdout # <<>>
    /\ Expected # {}
    /\ Detected(tool_order[idx]) # {}
    /\ ZeroDenominator(tool_order[idx])

\* C3: a tool with an empty detection set has no line and is never the tool
\* a fault is raised on, whatever the ground truth; the iteration that meets
\* it writes nothing and moves on to the next tool.
C3_EmptyToolInv ==
    \A t \in DOMAIN observed_transfers : Detected(t) = {} =>
        /\ LinesOf(t) = {}
        /\ ~(exc # "" /\ tool_order[idx] = t)

C3_EmptyToolStep ==
    (AccLooping /\ observed_transfers[tool_order[idx]] = <<>>) =>
        /\ idx' = idx + 1
        /\ stdout' = stdout
        /\ pc' = pc
        /\ exc' = ""

C3_EmptyToolSkipped == []C3_EmptyToolInv /\ [][C3_EmptyToolStep]_vars

C3_Witness ==
    /\ Detected(tool_order[1]) = {}
    /\ idx > 1
    /\ Len(stdout) = 1
    /\ stdout[1][1] = tool_order[2]

FaultRaised == exc = "ZeroDivisionError"

\* C13: the precision denominator tp + fp of a tool with a non-empty
\* detection set is the size of that set, hence at least 1; every tool with
\* a line and the tool a ZeroDivisionError was raised on have such a set, so
\* the fault is never raised by the precision division: it is raised by the
\* recall division exactly when the expected set is empty (tp + fn = 0), and
\* by the F1 division exactly when the expected set is non-empty and tp = 0.
C13_PrecisionNeverFaults ==
    /\ \A t \in DOMAIN observed_transfers : Detected(t) # {} =>
          /\ NTp(t) + NFp(t) = Cardinality(Detected(t))
          /\ NTp(t) + NFp(t) >= 1
    /\ \A i \in DOMAIN stdout :
          /\ NTp(stdout[i][1]) + NFp(stdout[i][1]) >= 1
          /\ FaultingDivision(stdout[i][1]) = ""
    /\ FaultRaised =>
          /\ NTp(tool_order[idx]) + NFp(tool_order[idx]) >= 1
          /\ FaultingDivision(tool_order[idx]) \in {"r", "f"}
          /\ FaultingDivision(tool_order[idx]) = "r" <=>
                (Expected = {} /\ NTp(tool_order[idx]) + NFn(tool_order[idx]) = 0)
          /\ FaultingDivision(tool_order[idx]) = "f" <=>
                (Expected # {} /\ NTp(tool_order[idx]) = 0)

\* the recall division raises on a tool with two detected genes
C13_Witness ==
    /\ FaultRaised
    /\ Expected = {}
    /\ Cardinality(Detected(tool_order[idx])) = 2
    /\ FaultingDivision(tool_order[idx]) = "r"

\* the tools with a line are the tools with a non-empty detection set that
\* were iterated before position idx, and their lines are in iteration order
LinesOfToolsBefore ==
    /\ \A t \in DOMAIN observed_transfers :
          LinesOf(t) # {} <=> (PosOf(t) < idx /\ Detected(t) # {})
    /\ \A i, j \in DOMAIN stdout :
          i < j => PosOf(stdout[i][1]) < PosOf(stdout[j][1])

C14_AtFault == FaultRaised => pc = "exit" /\ LinesOfToolsBefore

C14_Step ==
    /\ Len(stdout') >= Len(stdout)
    /\ SubSeq(stdout', 1, Len(stdout)) = stdout
    /\ (FaultRaised \/ FaultRaised') => stdout' = stdout

\* C14: the output only grows, and the step that raises ZeroDivisionError
\* leaves it as it is; once the fault is raised, the tools with a line are
\* exactly the tools with a non-empty detection set iterated before the
\* faulting tool, in iteration order, and the output never changes again, so
\* no tool iterated after the faulting tool gets a line, whether or not its
\* metrics are well defined.
C14_FaultKeepsEarlierOutput == []C14_AtFault /\ [][C14_Step]_vars

\* three tools: the first has its line, the second raised the fault, the
\* third has well defined metrics and no line
C14_Witness ==
    /\ FaultRaised
    /\ Len(tool_order) = 3
    /\ idx = 2
    /\ Len(stdout) = 1
    /\ stdout[1][1] = tool_order[1]
    /\ Detected(tool_order[3]) # {}
    /\ ~ZeroDenominator(tool_order[3])
    /\ LinesOf(tool_order[3]) = {}

(***************************************************************************)
(* parse_output.py                                                         *)
(* A line is a sequence of tokens; the fixed substrings the parsers look   *)
(* for are single tokens, as are "\n", " " and the pieces of other text.   *)
(***************************************************************************)
MaxLines == 2

Methods ==
    {"trex", "ranger-dtl", "riata-hgt", "consel", "darkhorse", "wn-svm",
     "genemark", "hgtector", "distance-method", "jane4", "tree-puzzle"}

\* variant: every method but consel runs a parser
ParsedMethodsWithFallback == Methods \ {"consel"}
\* the methods _main dispatches to a parser that exists
ParsedMethods == {"ranger-dtl", "trex", "riata-hgt", "jane4"}

\* the variable "string" of each parser
Anchor(m) ==
    CASE m = "trex" -> "hgt : number of HGT(s) found = "
      [] m = "ranger-dtl" -> "The minimum reconciliation cost is: "
      [] m = "riata-hgt" -> "There are "
      [] m = "jane4" -> "Host Switch: "
      [] OTHER -> ""

Whitespace == {" ", "\t", "\n"}

ResultLines ==
    {<<"x", "\n">>,
     <<"hgt : number of HGT(s) found = ", "3", "\n">>,
     <<"hgt : number of HGT(s) found = ", "5", "\n">>,
     <<"x", "hgt : number of HGT(s) found = ", " ", "3", " ", "\n">>,
     <<"The minimum reconciliation cost is: ", "x", "Transfers: ", "3", ",", "x", "\n">>,
     <<"The minimum reconciliation cost is: ", "x", "Transfers: ", "5", ",", "x", "\n">>,
     <<"The minimum reconciliation cost is: ", "x", "\n">>,
     <<"x", "Transfers: ", "3", ",", "\n">>,
     <<"There are ", "3", " component(s)", "x", "\n">>,
     <<"There are ", "5", " component(s)", "x", "\n">>,
     <<"Host Switch: ", "3", "\n">>,
     <<"Host Switch: ", "5", "\n">>,
     <<"Host Switch: ", "\n">>}

\* "string in line"
Contains(line, tok) == \E i \in DOMAIN line : line[i] = tok

FirstIndex(line, tok) == CHOOSE i \in DOMAIN line :
    line[i] = tok /\ \A j \in 1..(i - 1) : line[j] # tok

\* line.split(sep): the list of the pieces between the occurrences of sep
RECURSIVE Split(_, _)
Split(line, sep) ==
    IF ~Contains(line, sep) THEN <<line>>
    ELSE <<SubSeq(line, 1, FirstIndex(line, sep) - 1)>>
         \o Split(SubSeq(line, FirstIndex(line, sep) + 1, Len(line)), sep)

\* s.strip()
RECURSIVE Strip(_)
Strip(s) ==
    IF s = <<>> THEN s
    ELSE IF Head(s) \in Whitespace THEN Strip(Tail(s))
    ELSE IF s[Len(s)] \in Whitespace THEN Strip(SubSeq(s, 1, Len(s) - 1))
    ELSE s

\* the expression assigned to number_hgts raises IndexError
RaisesIndexError(m, line) ==
    m = "ranger-dtl" /\ Len(Split(line, "Transfers: ")) < 2

\* number_hgts (Python index k is TLA+ index k + 1)
NumberHgts(m, line) ==
    CASE m = "trex" -> Strip(Split(line, Anchor(m))[2])
      [] m = "ranger-dtl" -> Split(Split(line, "Transfers: ")[2], ",")[1]
      [] m = "riata-hgt" -> Split(Split(line, Anchor(m))[2], " component(s)")[1]
      [] m = "jane4" -> Strip(Split(line, Anchor(m))[2])

InitPo ==
    /\ method \in Methods
    /\ input_f \in SeqsUpTo(ResultLines, MaxLines)
    /\ out_str = FALSE
    /\ idx = 1
    /\ pc = "_main"
    /\ exc = ""
    /\ stdout = <<>>
    /\ fs = NoFiles
    /\ IdleAcc
    /\ IdleRf
    /\ IdleAp
    /\ IdleObs

\* lines 121-128: the method has a parser
PoCallParser ==
    /\ pc = "_main"
    /\ method \in ParsedMethods
    /\ pc' = "parse"
    /\ UNCHANGED <<exc, stdout, idx, method, fs, accVars, poVars, rfInputs, rfVars, apVars,
                   obsVars>>

\* lines 129-130: parse_consel is defined nowhere in the module
PoCallConsel ==
    /\ pc = "_main"
    /\ method = "consel"
    /\ pc' = "exit"
    /\ exc' = "NameError"
    /\ UNCHANGED <<stdout, idx, method, fs, accVars, poVars, rfInputs, rfVars, apVars,
                   obsVars>>

\* no branch of the if/elif chain matches: _main returns
PoNoBranch ==
    /\ pc = "_main"
    /\ method \notin ParsedMethods
    /\ method # "consel"
    /\ pc' = "exit"
    /\ UNCHANGED <<exc, stdout, idx, method, fs, accVars, poVars, rfInputs, rfVars, apVars,
                   obsVars>>

PoLooping == pc = "parse" /\ idx <= Len(input_f)

\* "if string in line" is false
PoLineWithoutAnchor ==
    /\ PoLooping
    /\ ~Contains(input_f[idx], Anchor(method))
    /\ idx' = idx + 1
    /\ UNCHANGED <<pc, exc, stdout, method, fs, accVars, poVars, rfInputs, rfVars, apVars,
                   obsVars>>

\* the line holds the anchor: number_hgts is written, out_str is set, and
\* the loop goes on to the next line
PoLineWithAnchor ==
    /\ PoLooping
    /\ Contains(input_f[idx], Anchor(method))
    /\ ~RaisesIndexError(method, input_f[idx])
    /\ stdout' = Append(stdout, NumberHgts(method, input_f[idx]))
    /\ out_str' = TRUE
    /\ idx' = idx + 1
    /\ UNCHANGED <<pc, exc, method, fs, accVars, input_f, rfInputs, rfVars, apVars,
                   obsVars>>

\* parse_rangerdtl, line 49: no "Transfers: " on the anchor line
PoLineIndexError ==
    /\ PoLooping
    /\ Contains(input_f[idx], Anchor(method))
    /\ RaisesIndexError(method, input_f[idx])
    /\ pc' = "exit"
    /\ exc' = "IndexError"
    /\ UNCHANGED <<stdout, idx, method, fs, accVars, poVars, rfInputs, rfVars, apVars,
                   obsVars>>

\* after the loop: "if not out_str: sys.stdout.write("NaN")"
PoEndOfFile ==
    /\ pc = "parse"
    /\ idx > Len(input_f)
    /\ stdout' = IF ~out_str THEN Append(stdout, <<"NaN">>) ELSE stdout
    /\ pc' = "exit"
    /\ UNCHANGED <<exc, idx, method, fs, accVars, poVars, rfInputs, rfVars, apVars,
                   obsVars>>

NextPo ==
    \/ PoCallParser
    \/ PoCallConsel
    \/ PoNoBranch
    \/ PoLineWithoutAnchor
    \/ PoLineWithAnchor
    \/ PoLineIndexError
    \/ PoEndOfFile

SpecPo == InitPo /\ [][NextPo]_vars

(***************************************************************************)
(* Claims about parse_output                                               *)
(***************************************************************************)
RECURSIVE Concat(_)
Concat(writes) == IF writes = <<>> THEN <<>> ELSE Head(writes) \o Concat(Tail(writes))

AnchorLines == {i \in DOMAIN input_f : Contains(input_f[i], Anchor(method))}
FirstAnchorLine == input_f[CHOOSE i \in AnchorLines : \A j \in AnchorLines : i <= j]

\* C4 as stated, for the runs of the four parsers that end without an
\* exception: the whole output is the count of the first line that holds
\* the anchor, or "NaN" when no line holds it.
C4_FirstMatchOnly ==
    (pc = "exit" /\ exc = "" /\ method \in {"trex", "ranger-dtl", "riata-hgt", "jane4"}) =>
        IF AnchorLines # {}
        THEN Concat(stdout) = NumberHgts(method, FirstAnchorLine)
        ELSE Concat(stdout) = <<"NaN">>

NoExtraction == {"darkhorse", "wn-svm", "genemark", "hgtector", "distance-method", "tree-puzzle"}

MaxTips == 2

SpeciesLabels == {<<"sp1">>, <<"sp2">>}

GeneLabels ==
    {<<"sp1", "_", "g1">>, <<"sp2", "_", "g2">>, <<"sp1", "_", "g2">>,
     <<"sp3", "_", "g1">>, <<"sp1">>}

RootLengths == {"None", "0.5"}

MsaIds == {<<"sp1", "/", "g1">>, <<"sp2">>}

\* the trees ((t1,t2),t3)...: in postorder t1, t2, (t1,t2), t3, ...
IsTipAt(k) == k <= 2 \/ k % 2 = 0
TipNumber(k) == IF k <= 2 THEN k ELSE (k \div 2) + 1
TreeOf(labels, root_length) ==
    [k \in 1..(2 * Len(labels) - 1) |->
        [name |-> IF IsTipAt(k) THEN labels[TipNumber(k)] ELSE <<>>,
         length |-> IF k = 2 * Len(labels) - 1 THEN root_length ELSE ToString(k),
         tip |-> IsTipAt(k)]]

TreesOver(labels) ==
    {TreeOf(l, r) : l \in UNION {[1..n -> labels] : n \in 2..MaxTips}, r \in RootLengths}

\* tree.tips(): the positions of the tips, in postorder
RECURSIVE TipsUpTo(_, _)
TipsUpTo(tree, k) ==
    IF k = 0 THEN <<>>
    ELSE IF tree[k].tip THEN Append(TipsUpTo(tree, k - 1), k)
    ELSE TipsUpTo(tree, k - 1)
Tips(tree) == TipsUpTo(tree, Len(tree))
TipNames(tree) == [i \in DOMAIN Tips(tree) |-> tree[Tips(tree)[i]].name]

\* node.is_root()
IsRoot(tree, k) == k = Len(tree)

\* TreeNode.read(fp, format='newick'): the underscores of an unquoted
\* label are read as spaces
Read(file_tree) ==
    [k \in DOMAIN file_tree |->
        [file_tree[k] EXCEPT !.name =
            [i \in DOMAIN @ |-> IF @[i] = "_" THEN " " ELSE @[i]]]]

\* name.split(): the words between the runs of whitespace
RECURSIVE PySplit(_)
PySplit(name) ==
    IF name = <<>> THEN <<>>
    ELSE IF Head(name) = " " THEN PySplit(Tail(name))
    ELSE LET rest == PySplit(Tail(name))
         IN  IF Len(name) > 1 /\ name[2] # " "
             THEN <<<<Head(name)>> \o Head(rest)>> \o Tail(rest)
             ELSE <<<<Head(name)>>>> \o rest

\* variant: split()[-1]
TrimKeepsLastWord(tree) ==
    [k \in DOMAIN tree |->
        IF tree[k].tip
        THEN [tree[k] EXCEPT !.name = PySplit(tree[k].name)[Len(PySplit(tree[k].name))]]
        ELSE tree[k]]
\* trim_gene_tree_leaves: gene_tree.find(node) is the node itself
trim_gene_tree_leaves(tree) ==
    [k \in DOMAIN tree |->
        IF tree[k].tip
        THEN [tree[k] EXCEPT !.name = PySplit(tree[k].name)[1]]
        ELSE tree[k]]

\* "for node in tree.postorder(): node.length = None"
StripLengths(tree) == [k \in DOMAIN tree |-> [tree[k] EXCEPT !.length = "None"]]

\* variant: the length of every node
StripRootLengthOfAll(tree) ==
    [k \in DOMAIN tree |-> [tree[k] EXCEPT !.length = "None"]]
\* "for node in tree.postorder(): if node.is_root(): node.length = None"
StripRootLength(tree) ==
    [k \in DOMAIN tree |->
        IF IsRoot(tree, k) THEN [tree[k] EXCEPT !.length = "None"] ELSE tree[k]]

\* str(tree): the Newick text, ";" and "\n" at its end; the writer puts
\* "_" for the spaces of a name
NewickLabel(node) ==
    [i \in DOMAIN node.name |-> IF node.name[i] = " " THEN "_" ELSE node.name[i]]
    \o (IF node.length = "None" THEN <<>> ELSE <<":", node.length>>)
RECURSIVE NewickOf(_, _)
NewickOf(tree, k) ==
    IF tree[k].tip THEN NewickLabel(tree[k])
    ELSE <<"(">> \o NewickOf(tree, k - 2) \o <<",">> \o NewickOf(tree, k - 1)
         \o <<")">> \o NewickLabel(tree[k])
Str(tree) == NewickOf(tree, Len(tree)) \o <<";", "\n">>

\* s[:-1] and s[:-2] (the mapping ends in one token ", ")
DropLast(s) == SubSeq(s, 1, Len(s) - 1)

\* join_trees: "%s\n%s\n" % (str(species_tree)[:-1], str(gene_tree)[:-1])
join_trees(gtree, stree) ==
    DropLast(Str(stree)) \o <<"\n">> \o DropLast(Str(gtree)) \o <<"\n">>

\* variant: no check of the species tips
DuplicateNeverFound(names) == FALSE
\* species_gene_mapping, lines 94-99: the species tips, in order
DuplicateSpecies(names) ==
    \E i, j \in DOMAIN names : i < j /\ names[i] = names[j]

\* lines 100-106: the first gene tip, in order, that raises
\* (unpacking "species, gene = node.name.split()" needs exactly two words)
RECURSIVE GeneLoopError(_, _)
GeneLoopError(names, keys) ==
    IF names = <<>> THEN ""
    ELSE IF Len(PySplit(Head(names))) # 2 THEN "ValueError: unpack"
    ELSE IF PySplit(Head(names))[1] \notin keys THEN "ValueError: does not exist"
    ELSE GeneLoopError(Tail(names), keys)

\* line 103: mapping_leaves[species].append(species)
AppendedToMapping(species, gene) == species

\* mapping_leaves after the loop over the gene tips
MappingLeaves(gene_names, keys) ==
    [sp \in keys |->
        LET mine == SelectSeq(gene_names, LAMBDA n : PySplit(n)[1] = sp)
        IN  [i \in DOMAIN mine |-> AppendedToMapping(PySplit(mine[i])[1], PySplit(mine[i])[2])]]

\* the exception species_gene_mapping raises, "" when it returns
species_gene_mapping_error(gtree, stree) ==
    IF DuplicateSpecies(TipNames(stree))
    THEN "ValueError: must be uniquely labeled"
    ELSE GeneLoopError(TipNames(gtree), Range(TipNames(stree)))

species_gene_mapping(gtree, stree) ==
    MappingLeaves(TipNames(gtree), Range(TipNames(stree)))

\* lines 254-257: "%s%s:%s, " for each gene of each species, the species in
\* the iteration order of the dict
RECURSIVE PairsOf(_, _)
PairsOf(species, genes) ==
    IF genes = <<>> THEN <<>>
    ELSE species \o <<":">> \o Head(genes) \o <<", ">> \o PairsOf(species, Tail(genes))
RECURSIVE MappingStr(_, _)
MappingStr(mapping, order) ==
    IF order = <<>> THEN <<>>
    ELSE PairsOf(Head(order), mapping[Head(order)]) \o MappingStr(mapping, Tail(order))

\* id_mapper: _id.split('/')[0]
id_mapper(ids) == [i \in DOMAIN ids |-> Split(ids[i], "/")[1]]

RfMethods == {"ranger-dtl", "trex", "riata-hgt", "jane4", "tree-puzzle"}

InitRf ==
    /\ method \in Methods
    /\ gene_tree_fp \in TreesOver(GeneLabels)
    /\ species_tree_fp \in TreesOver(SpeciesLabels)
    \* both trees come from the same simulation: both roots have a length or neither
    /\ gene_tree_fp[Len(gene_tree_fp)].length = species_tree_fp[Len(species_tree_fp)].length
    /\ gene_msa_fa_fp \in IF method = "tree-puzzle" THEN SeqsUpTo(MsaIds, 1) ELSE {<<>>}
    /\ gene_tree = <<>>
    /\ species_tree = <<>>
    /\ mapping_dict = <<>>
    /\ mapping_str = <<>>
    /\ fs = NoFiles
    /\ pc = "_main"
    /\ exc = ""
    /\ stdout = <<>>
    /\ idx = 1
    /\ IdleAcc
    /\ IdlePo
    /\ IdleAp
    /\ IdleObs

\* lines 370-371
RfReadTrees ==
    /\ pc = "_main"
    /\ gene_tree' = Read(gene_tree_fp)
    /\ species_tree' = Read(species_tree_fp)
    /\ pc' = "dispatch"
    /\ UNCHANGED <<exc, stdout, idx, method, fs, accVars, poVars, rfInputs,
                   mapping_dict, mapping_str, apVars,
                   obsVars>>

\* no branch of the if/elif chain of lines 373-394 matches
RfNoBranch ==
    /\ pc = "dispatch"
    /\ method \notin RfMethods
    /\ pc' = "exit"
    /\ UNCHANGED <<exc, stdout, idx, method, fs, accVars, poVars, rfInputs, rfVars, apVars,
                   obsVars>>

\* reformat_rangerdtl
RfRangerdtl ==
    /\ pc = "dispatch"
    /\ method = "ranger-dtl"
    /\ fs' = [fs EXCEPT !["output_tree_fp"] = {join_trees(gene_tree, species_tree)}]
    /\ pc' = "exit"
    /\ UNCHANGED <<exc, stdout, idx, method, accVars, poVars, rfInputs, rfVars, apVars,
                   obsVars>>

\* reformat_trex, lines 166-169: the trimmed gene tree goes to a temporary file
RfTrexTrim ==
    /\ pc = "dispatch"
    /\ method = "trex"
    /\ gene_tree' = trim_gene_tree_leaves(gene_tree)
    /\ fs' = [fs EXCEPT !["abs_path"] = {Str(trim_gene_tree_leaves(gene_tree))}]
    /\ pc' = "reformat_trex"
    /\ UNCHANGED <<exc, stdout, idx, method, accVars, poVars, rfInputs,
                   species_tree, mapping_dict, mapping_str, apVars,
                   obsVars>>

\* reformat_trex, line 171: the name tmp_gene_tree is bound nowhere, so
\* evaluating the arguments of join_trees raises NameError; line 174 (which
\* names tmp_gene_tree_fp, bound nowhere either) is not reached
RfTrexJoin ==
    /\ pc = "reformat_trex"
    /\ pc' = "exit"
    /\ exc' = "NameError"
    /\ UNCHANGED <<stdout, idx, method, fs, accVars, poVars, rfInputs, rfVars, apVars,
                   obsVars>>

\* reformat_riatahgt
RfRiatahgt ==
    /\ pc = "dispatch"
    /\ method = "riata-hgt"
    /\ gene_tree' = trim_gene_tree_leaves(gene_tree)
    /\ fs' = [fs EXCEPT !["output_tree_fp"] =
                {<<"Tree speciesTree = ">> \o Str(species_tree)
                 \o <<"Tree geneTree = ">> \o Str(trim_gene_tree_leaves(gene_tree))}]
    /\ pc' = "exit"
    /\ UNCHANGED <<exc, stdout, idx, method, accVars, poVars, rfInputs,
                   species_tree, mapping_dict, mapping_str, apVars,
                   obsVars>>

\* reformat_jane4, lines 245-246: species_gene_mapping raises
RfJane4MappingError ==
    /\ pc = "dispatch"
    /\ method = "jane4"
    /\ species_gene_mapping_error(gene_tree, species_tree) # ""
    /\ exc' = species_gene_mapping_error(gene_tree, species_tree)
    /\ pc' = "exit"
    /\ UNCHANGED <<stdout, idx, method, fs, accVars, poVars, rfInputs, rfVars, apVars,
                   obsVars>>

\* reformat_jane4, lines 245-246: species_gene_mapping returns
RfJane4Mapping ==
    /\ pc = "dispatch"
    /\ method = "jane4"
    /\ species_gene_mapping_error(gene_tree, species_tree) = ""
    /\ mapping_dict' = species_gene_mapping(gene_tree, species_tree)
    /\ pc' = "reformat_jane4"
    /\ UNCHANGED <<exc, stdout, idx, method, fs, accVars, poVars, rfInputs,
                   gene_tree, species_tree, mapping_str, apVars,
                   obsVars>>

\* reformat_jane4, lines 248-262
RfJane4Write ==
    /\ pc = "reformat_jane4"
    /\ \E order \in Permutations1(DOMAIN mapping_dict) :
          /\ mapping_str' = MappingStr(mapping_dict, order)
          /\ gene_tree' = StripLengths(trim_gene_tree_leaves(gene_tree))
          /\ species_tree' = StripLengths(species_tree)
          /\ fs' = [fs EXCEPT !["output_tree_fp"] =
                      {<<"tree host = ">> \o Str(StripLengths(species_tree))
                       \o <<"tree parasite = ">>
                       \o Str(StripLengths(trim_gene_tree_leaves(gene_tree)))
                       \o <<"Range ">> \o DropLast(MappingStr(mapping_dict, order))
                       \o <<";">>}]
    /\ pc' = "exit"
    /\ UNCHANGED <<exc, stdout, idx, method, accVars, poVars, rfInputs, mapping_dict, apVars,
                   obsVars>>

\* reformat_treepuzzle, lines 290-300
RfTreepuzzleTrees ==
    /\ pc = "dispatch"
    /\ method = "tree-puzzle"
    /\ gene_tree' = trim_gene_tree_leaves(StripRootLength(gene_tree))
    /\ species_tree' = StripRootLength(species_tree)
    /\ fs' = [fs EXCEPT !["output_tree_fp"] =
                {join_trees(trim_gene_tree_leaves(StripRootLength(gene_tree)),
                            StripRootLength(species_tree))}]
    /\ pc' = "reformat_treepuzzle"
    /\ UNCHANGED <<exc, stdout, idx, method, accVars, poVars, rfInputs,
                   mapping_dict, mapping_str, apVars,
                   obsVars>>

\* reformat_treepuzzle, lines 302-304: the alignment with its ids cut at "/"
RfTreepuzzleMsa ==
    /\ pc = "reformat_treepuzzle"
    /\ fs' = [fs EXCEPT !["output_msa_phy_fp"] = {id_mapper(gene_msa_fa_fp)}]
    /\ pc' = "exit"
    /\ UNCHANGED <<exc, stdout, idx, method, accVars, poVars, rfInputs, rfVars, apVars,
                   obsVars>>

NextRf ==
    \/ RfReadTrees
    \/ RfNoBranch
    \/ RfRangerdtl
    \/ RfTrexTrim
    \/ RfTrexJoin
    \/ RfRiatahgt
    \/ RfJane4MappingError
    \/ RfJane4Mapping
    \/ RfJane4Write
    \/ RfTreepuzzleTrees
    \/ RfTreepuzzleMsa

SpecRf == InitRf /\ [][NextRf]_vars

(***************************************************************************)
(* Claims about reformat_input, stated over the labels of the tree files   *)
(***************************************************************************)
GeneFileLabels == TipNames(gene_tree_fp)
SpeciesFileLabels == TipNames(species_tree_fp)

\* a gene label of two tokens, species and gene, around one delimiter
TwoTokenLabel(l) == Len(l) = 3 /\ l[1] # "_" /\ l[2] = "_" /\ l[3] # "_"
WellFormedGeneLabels == \A i \in DOMAIN GeneFileLabels : TwoTokenLabel(GeneFileLabels[i])

RepeatedSpeciesLabel ==
    \E i, j \in DOMAIN SpeciesFileLabels :
        i # j /\ SpeciesFileLabels[i] = SpeciesFileLabels[j]
UnknownSpeciesToken ==
    \E i \in DOMAIN GeneFileLabels :
        \A j \in DOMAIN SpeciesFileLabels : SpeciesFileLabels[j] # <<GeneFileLabels[i][1]>>

ValidationErrors ==
    {"ValueError: must be uniquely labeled", "ValueError: does not exist"}

MappingCalled == method = "jane4" /\ pc \in {"reformat_jane4", "exit"}

\* C6: on gene labels of two tokens, species_gene_mapping raises its
\* validation error exactly when a species label is repeated or a gene
\* leaf's species token is no species leaf; it then returns no mapping, and
\* otherwise returns a mapping whose keys are the species leaf labels.
C6_MappingValidation ==
    (MappingCalled /\ WellFormedGeneLabels) =>
        /\ exc \in ValidationErrors <=> (RepeatedSpeciesLabel \/ UnknownSpeciesToken)
        /\ exc \in ValidationErrors \cup {""}
        /\ exc # "" => mapping_dict = <<>>
        /\ exc = "" =>
              DOMAIN mapping_dict = {SpeciesFileLabels[j] : j \in DOMAIN SpeciesFileLabels}

C6_Witness ==
    /\ MappingCalled
    /\ WellFormedGeneLabels
    /\ SpeciesFileLabels = <<<<"sp1">>, <<"sp1">>>>
    /\ ~UnknownSpeciesToken
    /\ exc = "ValueError: must be uniquely labeled"

Scenario4 ==
    /\ SpeciesFileLabels = <<<<"sp1">>, <<"sp2">>>>
    /\ GeneFileLabels = <<<<"sp1", "_", "g1">>, <<"sp2", "_", "g2">>>>

\* C7 as stated: every pair species:gene of the Jane-4 mapping string has
\* the gene token of a gene leaf of that species, and scenario 4 gives
\* "sp1:g1, sp2:g2".
C7_MappingPairsGenes ==
    (method = "jane4" /\ pc = "exit" /\ exc = "") =>
        /\ \A i \in 1..(Len(mapping_str) \div 4) :
              \E k \in DOMAIN GeneFileLabels :
                  /\ TwoTokenLabel(GeneFileLabels[k])
                  /\ GeneFileLabels[k][1] = mapping_str[4 * i - 3]
                  /\ GeneFileLabels[k][3] = mapping_str[4 * i - 1]
        /\ Scenario4 =>
              DropLast(mapping_str) = <<"sp1", ":", "g1", ", ", "sp2", ":", "g2">>

\* C8 as stated: a trex run ends normally with the output tree file holding
\* the species tree and then the gene tree with trimmed leaf labels, and
\* with its temporary file removed.
C8_TrexWritesOutput ==
    (method = "trex" /\ pc = "exit") =>
        /\ exc = ""
        /\ fs["output_tree_fp"] =
              {join_trees(trim_gene_tree_leaves(Read(gene_tree_fp)), Read(species_tree_fp))}
        /\ fs["abs_path"] = {}

GeneTreeTrimmed ==
    \/ method = "trex" /\ pc \in {"reformat_trex", "exit"}
    \/ method = "riata-hgt" /\ pc = "exit"
    \/ method = "jane4" /\ pc = "exit" /\ exc = ""
    \/ method = "tree-puzzle" /\ pc \in {"reformat_treepuzzle", "exit"}

\* the species token of a label: what precedes its first delimiter
RECURSIVE SpeciesToken(_)
SpeciesToken(l) ==
    IF l = <<>> \/ Head(l) = "_" THEN <<>> ELSE <<Head(l)>> \o SpeciesToken(Tail(l))

\* C9: after trimming, a gene leaf whose label carried a gene qualifier is
\* named by its species token and a leaf without qualifier keeps its label;
\* trimming a tree twice gives the same leaf names as trimming it once.
C9_TrimIdempotent ==
    /\ GeneTreeTrimmed =>
          \A i \in DOMAIN GeneFileLabels :
              /\ TipNames(gene_tree)[i] = SpeciesToken(GeneFileLabels[i])
              /\ ~Contains(GeneFileLabels[i], "_") => TipNames(gene_tree)[i] = GeneFileLabels[i]
    /\ GeneTreeTrimmed => TipNames(trim_gene_tree_leaves(gene_tree)) = TipNames(gene_tree)
    /\ gene_tree # <<>> =>
          TipNames(trim_gene_tree_leaves(trim_gene_tree_leaves(gene_tree)))
              = TipNames(trim_gene_tree_leaves(gene_tree))

C9_Witness ==
    /\ GeneTreeTrimmed
    /\ GeneFileLabels = <<<<"sp1", "_", "g1">>, <<"sp1">>>>
    /\ TipNames(gene_tree) = <<<<"sp1">>, <<"sp1">>>>

(***************************************************************************)
(* create_alf_params.py                                                    *)
(* Texts are sequences of tokens; the placeholders of the template are     *)
(* single tokens.                                                          *)
(***************************************************************************)
\* parameter_file, lines 108-160: the lines that hold a placeholder
parameter_file ==
    <<"wdir := '", "WORKING_DIR_PATH", "';\n",
      ";realorganism := '", "ORGANISM.db", "';\n",
      "treeFile := '", "CUSTOM_TREE.nwk", "';\n",
      "lgtRate := ", "LGT_RATE", ";\n",
      "orthRep := ", "ORTHREP", ";\n">>

\* string.replace(s, old, new)
RECURSIVE replace(_, _, _)
replace(text, old, new) ==
    IF text = <<>> THEN <<>>
    ELSE (IF Head(text) = old THEN new ELSE <<Head(text)>>) \o replace(Tail(text), old, new)

\* what fasta2darwin may write to its standard error
ErrorStreams == {"", "fasta2darwin: warning", "fasta2darwin: cannot read file"}

\* variant: the error stream is ignored
RaisesOnNoStream(stderr) == FALSE
\* run_fasta_to_darwin, lines 40-41: "if stderr: raise ValueError(stderr)"
RaisesOnStderr(stderr) == stderr # ""

ParamArgs ==
    [working_dp : {"/work", "/tmp/alf"},
     root_genome_fp : {"genome.faa"},
     custom_tree_fp : {"tree.nwk"},
     output_file_name : {"alf_params.txt"},
     lgt_rate : {"0.003", "0.1"},
     orth_rep : {"0.5", "1.0"},
     gc_content_amelioration : {"True", "False", "true"}]

\* line 73: join(working_dp, "%s.db" % basename(root_genome_fp))
root_genome_db_fp == <<args.working_dp, "/", args.root_genome_fp, ".db">>

\* lines 77-83
Substituted ==
    LET p1 == replace(parameter_file, "WORKING_DIR_PATH", <<args.working_dp>>)
        p2 == replace(p1, "ORGANISM.db", root_genome_db_fp)
        p3 == replace(p2, "CUSTOM_TREE.nwk", <<args.custom_tree_fp>>)
        p4 == replace(p3, "LGT_RATE", <<args.lgt_rate>>)
        p5 == replace(p4, "ORTHREP", <<args.orth_rep>>)
    IN  IF args.gc_content_amelioration = "True"
        THEN p5 \o <<"targetFreqs := ['Random'];\n">>
        ELSE p5

InitAp ==
    /\ args \in ParamArgs
    /\ proc = [ran |-> FALSE, stderr |-> ""]
    /\ p = <<>>
    /\ exc_arg = ""
    /\ fs = NoFiles
    /\ pc = "create_param_file"
    /\ exc = ""
    /\ stdout = <<>>
    /\ idx = 1
    /\ method = ""
    /\ IdleAcc
    /\ IdlePo
    /\ IdleRf
    /\ IdleObs

\* lines 33-37: Popen finds no executable fasta2darwin
ApPopenFails ==
    /\ pc = "create_param_file"
    /\ exc' = "OSError"
    /\ pc' = "exit"
    /\ UNCHANGED <<stdout, idx, method, fs, accVars, poVars, rfInputs, rfVars,
                   exc_arg, args, proc, p,
                   obsVars>>

\* lines 74-75, run_fasta_to_darwin: the converter ran and wrote nothing to
\* its standard error
ApConverted ==
    /\ pc = "create_param_file"
    /\ \E stderr \in ErrorStreams :
          /\ ~RaisesOnStderr(stderr)
          /\ proc' = [ran |-> TRUE, stderr |-> stderr]
    /\ pc' = "substitute"
    /\ UNCHANGED <<exc, stdout, idx, method, fs, accVars, poVars, rfInputs, rfVars,
                   exc_arg, args, p,
                   obsVars>>

\* lines 74-75, run_fasta_to_darwin: ValueError(stderr) leaves
\* create_param_file and main
ApConverterError ==
    /\ pc = "create_param_file"
    /\ \E stderr \in ErrorStreams :
          /\ RaisesOnStderr(stderr)
          /\ proc' = [ran |-> TRUE, stderr |-> stderr]
          /\ exc_arg' = stderr
    /\ exc' = "ValueError"
    /\ pc' = "exit"
    /\ UNCHANGED <<stdout, idx, method, fs, accVars, poVars, rfInputs, rfVars, args, p,
                   obsVars>>

\* lines 76-83
ApSubstitute ==
    /\ pc = "substitute"
    /\ p' = Substituted
    /\ pc' = "write"
    /\ UNCHANGED <<exc, stdout, idx, method, fs, accVars, poVars, rfInputs, rfVars,
                   exc_arg, args, proc,
                   obsVars>>

\* lines 84-85
ApWrite ==
    /\ pc = "write"
    /\ fs' = [fs EXCEPT !["alf_params_fp"] = {p}]
    /\ pc' = "exit"
    /\ UNCHANGED <<exc, stdout, idx, method, accVars, poVars, rfInputs, rfVars,
                   exc_arg, args, proc, p,
                   obsVars>>

NextAp == ApPopenFails \/ ApConverted \/ ApConverterError \/ ApSubstitute \/ ApWrite

SpecAp == InitAp /\ [][NextAp]_vars

(***************************************************************************)
(* Claims about create_alf_params                                          *)
(***************************************************************************)
\* C10: the converter has run before any substitution or write; a run
\* whose converter wrote to its standard error ends in a ValueError that
\* carries the stream, with no substitution done and no parameter file; a
\* parameter file exists only on runs whose converter error stream was
\* empty.
C10_ConverterFirstAndFatal ==
    /\ (p # <<>> \/ fs["alf_params_fp"] # {}) => proc.ran
    /\ (proc.ran /\ proc.stderr # "") =>
          /\ pc = "exit"
          /\ exc = "ValueError"
          /\ exc_arg = proc.stderr
          /\ p = <<>>
          /\ fs["alf_params_fp"] = {}
    /\ fs["alf_params_fp"] # {} => proc.ran /\ proc.stderr = "" /\ exc = ""
    /\ (pc = "exit" /\ exc = "") => fs["alf_params_fp"] = {Substituted}

C10_Witness ==
    /\ proc.ran
    /\ proc.stderr = "fasta2darwin: cannot read file"
    /\ exc = "ValueError"
    /\ fs["alf_params_fp"] = {}

(* ---- claims about the branch lengths after reformatting ---- *)
\* the node of the tree keeps the length the file gave it
KeepsLength(tree, file_tree, k) == tree[k].length = file_tree[k].length

\* only the root lost its length
OnlyRootStripped(tree, file_tree) ==
    /\ Len(tree) = Len(file_tree)
    /\ tree[Len(tree)].length = "None"
    /\ \A k \in 1..(Len(tree) - 1) : KeepsLength(tree, file_tree, k)

NoLengthLeft(tree) == \A k \in DOMAIN tree : tree[k].length = "None"

AfterTreepuzzle == method = "tree-puzzle" /\ pc \in {"reformat_treepuzzle", "exit"}
AfterJane4 == method = "jane4" /\ pc = "exit" /\ exc = ""

\* C12: after reformat_treepuzzle the root of the gene tree and of the species
\* tree has no branch length and every other node of either tree has the
\* branch length it was read with; after reformat_jane4 no node of either
\* tree has a branch length, and the text of neither tree shows one.
C12_TreepuzzleStripsRootOnly ==
    /\ AfterTreepuzzle =>
          /\ OnlyRootStripped(gene_tree, gene_tree_fp)
          /\ OnlyRootStripped(species_tree, species_tree_fp)
    /\ AfterJane4 =>
          /\ NoLengthLeft(gene_tree)
          /\ NoLengthLeft(species_tree)
          /\ ~Contains(Str(gene_tree), ":")
          /\ ~Contains(Str(species_tree), ":")

\* a Tree-Puzzle run on trees whose roots came with a length
C12_Witness ==
    /\ AfterTreepuzzle
    /\ pc = "exit"
    /\ gene_tree_fp[Len(gene_tree_fp)].length = "0.5"
    /\ species_tree_fp[Len(species_tree_fp)].length = "0.5"
    /\ gene_tree[Len(gene_tree)].length = "None"
    /\ species_tree[Len(species_tree)].length = "None"
    /\ gene_tree[1].length = "1"
    /\ species_tree[2].length = "2"

(***************************************************************************)
(* compute_accuracy.py: parse_observed_transfers                           *)
(* A line of the summary file is a sequence of tokens, "\t" and "\n"       *)
(* among them; a field is the sequence of tokens between two tabs.         *)
(***************************************************************************)
MaxRows == 2

\* "%s\t%s\t...\n"
RECURSIVE TabLine(_)
TabLine(fields) ==
    IF fields = <<>> THEN <<"\n">>
    ELSE IF Len(fields) = 1 THEN <<Head(fields), "\n">>
    ELSE <<Head(fields), "\t">> \o TabLine(Tail(fields))

\* the first line of the documented format
TitleLine == <<"#", "number of HGTs detected", "\n">>

\* the header row: "#", "gene ID", then the names of the tools
HeaderLines ==
    {TabLine(<<"#", "gene ID">> \o names) :
        names \in {<<"toolX">>, <<"toolX", "toolY">>, <<"toolY", "toolX">>,
                   <<"toolX", "toolX">>}}

\* a gene row: row number, gene id, one count of HGTs per tool
GeneRows ==
    {TabLine(<<"0", g, f1, f2>>) : g \in {"g1", "g2"}, f1 \in {"0", "1", "2"},
                                   f2 \in {"0", "1", "2"}}

\* what the first line of a file may be: the title, a header row, a gene row
FirstLines ==
    {TitleLine, TabLine(<<"#", "gene ID", "toolY", "toolX">>),
     TabLine(<<"0", "g2", "1", "1">>)}

SummaryFiles ==
    {head \o rows :
        head \in {<<>>, <<TitleLine>>} \cup {<<h>> : h \in HeaderLines}
                 \cup {<<first, h>> : first \in FirstLines, h \in HeaderLines},
        rows \in SeqsUpTo(GeneRows, MaxRows)}

\* line.strip().split('\t')
Fields(line) == Split(Strip(line), "\t")

\* line[0].startswith('#')
StartsWithHash(fields) == fields[1] # <<>> /\ fields[1][1] = "#"

\* int(hgt_num)
IntOf(field) ==
    CASE field = <<"0">> -> 0
      [] field = <<"1">> -> 1
      [] field = <<"2">> -> 2

\* variant: ">= 0"
IsCountedAlways(field) == IntOf(field) >= 0
\* line 81: int(hgt_num) > 0
IsCounted(field) == IntOf(field) > 0

\* lines 73-76: the tools of the header row become keys with an empty list
WithKeys(tools, names) ==
    [t \in DOMAIN tools \cup Range(names) |->
        IF t \in DOMAIN tools THEN tools[t] ELSE <<>>]

\* lines 78-83 raise IndexError: no line[1], or a count > 0 in a column
\* for which tools_id has no name
RowRaises(fields, ids) ==
    \/ Len(fields) < 2
    \/ \E i \in 1..(Len(fields) - 2) : IsCounted(fields[i + 2]) /\ i > Len(ids)

\* lines 78-83: gene_id is appended to the list of each tool whose count
\* is > 0, column by column
RECURSIVE RowApplied(_, _, _, _)
RowApplied(tools, ids, fields, i) ==
    IF i > Len(fields) - 2 THEN tools
    ELSE RowApplied(
            IF IsCounted(fields[i + 2])
            THEN [tools EXCEPT ![ids[i]] = Append(@, fields[2])]
            ELSE tools,
            ids, fields, i + 1)

InitObs ==
    /\ observed_hgts_f \in SummaryFiles
    /\ tools_id = <<>>
    /\ observed_transfers = <<>>
    /\ idx = 1
    /\ pc = "parse_observed_transfers"
    /\ exc = ""
    /\ stdout = <<>>
    /\ method = ""
    /\ fs = NoFiles
    /\ expected_transfers = <<>>
    /\ tool_order = <<>>
    /\ IdlePo
    /\ IdleRf
    /\ IdleAp

\* line 69: next(observed_hgts_f) on a file without lines
ObsNextStops ==
    /\ pc = "parse_observed_transfers"
    /\ observed_hgts_f = <<>>
    /\ exc' = "StopIteration"
    /\ pc' = "exit"
    /\ UNCHANGED <<stdout, idx, method, fs, accVars, poVars, rfInputs, rfVars, apVars,
                   obsVars>>

\* line 69: the first line is read and dropped
ObsNext ==
    /\ pc = "parse_observed_transfers"
    /\ observed_hgts_f # <<>>
    /\ idx' = 2
    /\ pc' = "for line"
    /\ UNCHANGED <<exc, stdout, method, fs, accVars, poVars, rfInputs, rfVars, apVars,
                   obsVars>>

ObsLooping == pc = "for line" /\ idx <= Len(observed_hgts_f)

\* lines 72-77: a row that starts with '#'
ObsHeaderRow ==
    /\ ObsLooping
    /\ StartsWithHash(Fields(observed_hgts_f[idx]))
    /\ tools_id' = tools_id \o SubSeq(Fields(observed_hgts_f[idx]), 3,
                                      Len(Fields(observed_hgts_f[idx])))
    /\ observed_transfers' =
          WithKeys(observed_transfers,
                   SubSeq(Fields(observed_hgts_f[idx]), 3, Len(Fields(observed_hgts_f[idx]))))
    /\ idx' = idx + 1
    /\ UNCHANGED <<pc, exc, stdout, method, fs, expected_transfers, tool_order, poVars,
                   rfInputs, rfVars, apVars, observed_hgts_f>>

\* lines 78-83: a gene row
ObsGeneRow ==
    /\ ObsLooping
    /\ ~StartsWithHash(Fields(observed_hgts_f[idx]))
    /\ ~RowRaises(Fields(observed_hgts_f[idx]), tools_id)
    /\ observed_transfers' =
          RowApplied(observed_transfers, tools_id, Fields(observed_hgts_f[idx]), 1)
    /\ idx' = idx + 1
    /\ UNCHANGED <<pc, exc, stdout, method, fs, expected_transfers, tool_order, poVars,
                   rfInputs, rfVars, apVars, obsVars>>

\* lines 78-83: a gene row that raises
ObsGeneRowRaises ==
    /\ ObsLooping
    /\ ~StartsWithHash(Fields(observed_hgts_f[idx]))
    /\ RowRaises(Fields(observed_hgts_f[idx]), tools_id)
    /\ exc' = "IndexError"
    /\ pc' = "exit"
    /\ UNCHANGED <<stdout, idx, method, fs, accVars, poVars, rfInputs, rfVars, apVars,
                   obsVars>>

\* line 84: return tools
ObsReturn ==
    /\ pc = "for line"
    /\ idx > Len(observed_hgts_f)
    /\ pc' = "exit"
    /\ UNCHANGED <<exc, stdout, idx, method, fs, accVars, poVars, rfInputs, rfVars, apVars,
                   obsVars>>

NextObs ==
    \/ ObsNextStops
    \/ ObsNext
    \/ ObsHeaderRow
    \/ ObsGeneRow
    \/ ObsGeneRowRaises
    \/ ObsReturn

SpecObs == InitObs /\ [][NextObs]_vars

(* ---- claims about parse_observed_transfers ---- *)
ObsFields(k) == Fields(observed_hgts_f[k])

\* the file is a first line, then one header row, then gene rows
IsTable ==
    /\ Len(observed_hgts_f) >= 2
    /\ StartsWithHash(ObsFields(2))
    /\ \A k \in 3..Len(observed_hgts_f) : ~StartsWithHash(ObsFields(k))

\* the tool names of the header row, column by column
ToolNames == SubSeq(ObsFields(2), 3, Len(ObsFields(2)))

\* every gene row has a gene id and no more flags than the header has tools
RowsFitHeader ==
    \A k \in 3..Len(observed_hgts_f) :
        /\ Len(ObsFields(k)) >= 2
        /\ Len(ObsFields(k)) - 2 <= Len(ToolNames)

\* the columns of row k that are named T and hold a flag greater than 0
FlaggedColumns(T, k) ==
    {c \in 1..Len(ToolNames) :
        /\ ToolNames[c] = T
        /\ c + 2 <= Len(ObsFields(k))
        /\ ObsFields(k)[c + 2] \notin {<<"0">>}}

\* the gene ids of rows k.. flagged for T, in row order
RECURSIVE FlaggedGenes(_, _)
FlaggedGenes(T, k) ==
    IF k > Len(observed_hgts_f) THEN <<>>
    ELSE [j \in 1..Cardinality(FlaggedColumns(T, k)) |-> ObsFields(k)[2]]
            \o FlaggedGenes(T, k + 1)

\* the tool names of the '#' rows after the first line
NamesAfterFirstLine ==
    UNION {Range(SubSeq(ObsFields(k), 3, Len(ObsFields(k)))) :
              k \in {j \in 2..Len(observed_hgts_f) : StartsWithHash(ObsFields(j))}}

\* C11: for a file made of a first line, one '#' header row naming the tool
\* columns and then gene rows, parse_observed_transfers returns a mapping
\* whose keys are exactly the header's tool names and in which tool T's
\* sequence is, in row order, the gene id of every row whose flag in T's
\* column is greater than 0, and of no row whose flag there is 0; the first
\* line of the file never contributes, whatever it holds.
C11_ObservedTransfersParsed ==
    pc = "exit" /\ observed_hgts_f # <<>> =>
        /\ IsTable /\ RowsFitHeader => exc = ""
        /\ exc = "" => DOMAIN observed_transfers = NamesAfterFirstLine
        /\ IsTable /\ exc = "" =>
              /\ DOMAIN observed_transfers = Range(ToolNames)
              /\ \A T \in Range(ToolNames) :
                    observed_transfers[T] = FlaggedGenes(T, 3)

\* a table of two tools and two gene rows: the first tool is flagged in both
\* rows (g2 before g1, one flag being 2), the second tool in the second only
C11_Witness ==
    /\ pc = "exit"
    /\ exc = ""
    /\ observed_hgts_f = <<TitleLine,
                           TabLine(<<"#", "gene ID", "toolX", "toolY">>),
                           TabLine(<<"0", "g2", "2", "0">>),
                           TabLine(<<"0", "g1", "1", "1">>)>>
    /\ DOMAIN observed_transfers = {<<"toolX">>, <<"toolY">>}
    /\ observed_transfers[<<"toolX">>] = <<<<"g2">>, <<"g1">>>>
    /\ observed_transfers[<<"toolY">>] = <<<<"g1">>>>

====
